---- MODULE Spec2Model ----
(***************************************************************************)
(* EduAssess (setyahenri/Asesmen): the quiz session of the student client  *)
(* (TakeQuiz in src/src/App.tsx), its scoring at finish, the server's      *)
(* quiz / result endpoints and the NEW_QUIZ notification channel           *)
(* (src/unnamed/part_000, the express + ws server).                        *)
(*                                                                         *)
(* JavaScript values are modelled as follows.  A slot that may be          *)
(* `undefined` (an array hole, a missing property) is a set with at most   *)
(* one element: {} is undefined and {v} is the value v.  Arrays are        *)
(* sequences, indexed from 0 by the operator At.                           *)
(***************************************************************************)
EXTENDS Integers, Sequences, FiniteSets, TLC

\* ---------------------------------------------------------------- bounds
MaxQuestions == 2
MaxId == 2
MaxConns == 3
MaxCreates == 1
MaxChains == 2
MaxFrames == 3
MaxResults == 1

\* ------------------------------------------------------ program constants
\* every question authored by the form has four options (App.tsx:326)
NumOptions == 4

VARIABLES
    \* --- the sqlite tables of the server (part_000:23-50)
    quizzes,      \* rows of `quizzes`: [id, title]
    quizSeq,      \* the AUTOINCREMENT counter of `quizzes` (last id handed out)
    questions,    \* rows of `questions` in rowid order: [quiz_id, correct_index, options]
    results,      \* rows of `results` in rowid order
    \* --- one mounted TakeQuiz component (App.tsx:607-612)
    reqId,        \* useParams().id
    fetching,     \* the GET /api/quizzes/:id of the mount effect is in flight
    quiz,         \* useState<Quiz | null>(null)
    currentIdx,   \* useState(0)
    answers,      \* useState<number[]>([])
    finished,     \* useState(false)
    score,        \* useState(0)
    posts,        \* POST /api/results requests sent and not yet handled
    \* --- the notification channel of the server (part_000:56-73)
    clients,      \* new Set<WebSocket>(), in insertion (= iteration) order
    readyState,   \* readyState of the server end of each connection
    wire,         \* per connection: frames handed to send(), not yet taken by onmessage
    httpRes,      \* the response to the last POST or DELETE of /api/quizzes
    \* --- App of one browser tab (App.tsx:844-891)
    user,         \* useState<User | null>: "none", "student" or "teacher"
    effect,       \* the chain whose cleanup the last effect run returned, or 0
    cli,          \* per chain: readyState of the client end of its socket
    reconnectTimers, \* per chain: pending setTimeout(connect, 3000), by their delays
    notification, \* useState<string | null>(null)
    dismissTimers,\* pending setTimeout(() => setNotification(null), 10000), oldest first
    received,     \* number of NEW_QUIZ events onmessage has handled
    handled,      \* number of messages onmessage has been called with
    \* --- one mount of the CreateQuiz form (App.tsx:322-358)
    draft,        \* useState<Question[]>: per question its options and correct_index
    formMounted   \* the form is mounted (it is left by navigate('/') after a submit)

dbVars == <<quizzes, quizSeq, questions, results>>
sessVars == <<reqId, fetching, quiz, currentIdx, answers, finished, score, posts>>
chanVars == <<clients, readyState, wire, httpRes>>
appVars == <<user, effect, cli, reconnectTimers, notification, dismissTimers, received, handled>>
formVars == <<draft, formMounted>>
vars == <<dbVars, sessVars, chanVars, appVars, formVars>>

\* --------------------------------------------------------- JS primitives
Undefined == {}

Options == 0 .. (NumOptions - 1)

\* a[i] of a JS array: undefined past the end or at a hole
At(a, i) == IF i >= 0 /\ i < Len(a) THEN a[i + 1] ELSE Undefined

\* mutant: an unanswered slot read as option 0, as in (x || 0) === n
StrictEqOrZero(x, n) == x = {n} \/ (x = Undefined /\ n = 0)

\* x === n for a slot x and a number n
StrictEq(x, n) == x = {n}

\* mutant: b = []; b[i] = v  (the other positions are lost)
SetAtOnly(a, i, v) ==
    [k \in 1 .. (i + 1) |-> IF k = i + 1 THEN {v} ELSE Undefined]

\* b = [...a]; b[i] = v  (a spread copies holes as undefined; an assignment
\* past the end extends the array)
SetAt(a, i, v) ==
    [k \in 1 .. (IF i + 1 > Len(a) THEN i + 1 ELSE Len(a)) |->
        IF k = i + 1 THEN {v} ELSE At(a, k - 1)]

\* { text: '', image_url: '', options: ['', '', '', ''], correct_index: 0 }
BlankQuestion == [options |-> [o \in 1 .. NumOptions |-> {""}], correct_index |-> 0]

\* no CreateQuiz form is mounted
InitNoForm ==
    /\ draft = <<BlankQuestion>>
    /\ formMounted = FALSE

\* Math.round(x / y * 100) for integers x >= 0, y > 0 (round half up);
\* 0 / 0 is NaN and Math.round(NaN) is NaN, modelled as Undefined
NaN == {}
Percentage(s, n) ==
    IF n = 0 THEN NaN ELSE {(200 * s + n) \div (2 * n)}

\* ----------------------------------------------------------- the server
\* SELECT * FROM questions WHERE quiz_id = ?   (rowid order)
RECURSIVE QuestionsOf(_, _)
QuestionsOf(rows, id) ==
    IF rows = <<>> THEN <<>>
    ELSE IF Head(rows).quiz_id = id
         THEN <<[correct_index |-> Head(rows).correct_index,
                 options |-> Head(rows).options]>> \o QuestionsOf(Tail(rows), id)
         ELSE QuestionsOf(Tail(rows), id)

QuizIds == {q.id : q \in quizzes}

NullQuiz == [kind |-> "null", id |-> 0, questions |-> <<>>]
\* the 404 body {error: "Quiz not found"}: an object without `questions`
ErrorBody == [kind |-> "error", id |-> 0, questions |-> <<>>]

\* GET /api/quizzes/:id: the JSON body of the response
GetQuiz(id) ==
    IF id \notin QuizIds THEN ErrorBody
    ELSE [kind |-> "quiz", id |-> id, questions |-> QuestionsOf(questions, id)]

\* POST /api/results
PostResults ==
    /\ posts /= <<>>
    /\ results' = Append(results, Head(posts))
    /\ posts' = Tail(posts)
    /\ UNCHANGED <<quizzes, quizSeq, questions>>
    /\ UNCHANGED <<formVars, reqId, fetching, quiz, currentIdx, answers, finished, score>>
    /\ UNCHANGED <<chanVars, appVars>>

\* ------------------------------------------- the notification channel
Conns == 1 .. MaxConns
\* the connection slots used by the sockets of the modelled browser tab
Chains == 1 .. MaxChains

\* err: the connection whose send() raised the exception that ended the handler
NoResponse == [status |-> 0, id |-> 0, err |-> {}]

InitChannel ==
    /\ clients = <<>>
    /\ readyState = [c \in Conns |-> "CLOSED"]
    /\ wire = [c \in Conns |-> <<>>]
    /\ httpRes = NoResponse

Members == {clients[k] : k \in 1 .. Len(clients)}

\* Set.prototype.delete, keeping the insertion order of the others
RECURSIVE Without(_, _)
Without(seq, c) ==
    IF seq = <<>> THEN <<>>
    ELSE IF Head(seq) = c THEN Without(Tail(seq), c)
         ELSE <<Head(seq)>> \o Without(Tail(seq), c)

\* wss.on("connection", ws => clients.add(ws)): the handshake of a new
\* connection completed, its server end is OPEN
wssConnection(c) ==
    /\ readyState[c] = "CLOSED"
    /\ c \notin Members
    /\ clients' = Append(clients, c)
    /\ readyState' = [readyState EXCEPT ![c] = "OPEN"]
    /\ wire' = [wire EXCEPT ![c] = <<>>]
    /\ UNCHANGED httpRes

\* the closing handshake or a transport failure starts on an open connection:
\* its server end leaves OPEN before its "close" event is emitted
wsClosing(c) ==
    /\ readyState[c] = "OPEN"
    /\ readyState' = [readyState EXCEPT ![c] = "CLOSING"]
    /\ UNCHANGED <<clients, wire, httpRes>>

\* ws.on("close", () => clients.delete(ws)); the connection is gone
wsClose(c) ==
    /\ readyState[c] = "CLOSING"
    /\ readyState' = [readyState EXCEPT ![c] = "CLOSED"]
    /\ clients' = Without(clients, c)
    /\ wire' = [wire EXCEPT ![c] = <<>>]
    /\ UNCHANGED httpRes

\* JSON.stringify(data): the text of a frame, modelled by what JSON.parse
\* makes of it (parses = FALSE: the parse throws)
Stringify(data) == [parses |-> TRUE, type |-> data.type, title |-> data.title]

\* The loop clients.forEach(client => { if (client.readyState === OPEN)
\* client.send(message) }) over the members `seq`.  `throwing` is the set of
\* connections whose send() raises; an exception leaves the loop.
\* The result is <<connections that were sent the message, {the connection
\* whose send raised}>>.
\* mutant: the loop without the readyState test
RECURSIVE ForEachSendAll(_, _)
ForEachSendAll(seq, throwing) ==
    IF seq = <<>> THEN <<<<>>, {}>>
    ELSE IF Head(seq) \in throwing THEN <<<<>>, {Head(seq)}>>
    ELSE LET rest == ForEachSendAll(Tail(seq), throwing)
         IN  <<<<Head(seq)>> \o rest[1], rest[2]>>

RECURSIVE ForEachSend(_, _)
ForEachSend(seq, throwing) ==
    IF seq = <<>> THEN <<<<>>, {}>>
    ELSE IF readyState[Head(seq)] /= "OPEN" THEN ForEachSend(Tail(seq), throwing)
    ELSE IF Head(seq) \in throwing THEN <<<<>>, {Head(seq)}>>
    ELSE LET rest == ForEachSend(Tail(seq), throwing)
         IN  <<<<Head(seq)>> \o rest[1], rest[2]>>

SeqSet(seq) == {seq[k] : k \in 1 .. Len(seq)}

\* broadcast(data) with the sends of `throwing` raising
broadcast(data, throwing) ==
    LET run == ForEachSend(clients, throwing)
    IN  wire' = [c \in Conns |->
                   IF c \in SeqSet(run[1]) THEN Append(wire[c], Stringify(data))
                   ELSE wire[c]]

\* The request bodies of POST /api/quizzes
Titles == {"Science Quiz", "Math Basics"}
BodyQuestions ==
    {<<[correct_index |-> 1, options |-> NumOptions],
       [correct_index |-> 0, options |-> NumOptions]>>}

\* the rows the insertQuestion loop adds for quiz `id`
NewRows(id, qs) ==
    [k \in 1 .. Len(qs) |->
        [quiz_id |-> id, correct_index |-> qs[k].correct_index, options |-> qs[k].options]]

\* app.post("/api/quizzes"): insert the quiz, insert its questions,
\* broadcast, respond.  An exception of the handler is answered by express
\* with status 500.
postQuizzes(title, qs, throwing) ==
    LET quizId == quizSeq + 1
    IN  /\ quizSeq < MaxCreates
        /\ quizSeq' = quizId
        /\ quizzes' = quizzes \cup {[id |-> quizId, title |-> title]}
        /\ questions' = questions \o NewRows(quizId, qs)
        /\ broadcast([type |-> "NEW_QUIZ", title |-> title], throwing)
        /\ httpRes' = IF ForEachSend(clients, throwing)[2] = {}
                      THEN [status |-> 200, id |-> quizId, err |-> {}]
                      ELSE [status |-> 500, id |-> 0,
                            err |-> ForEachSend(clients, throwing)[2]]
        /\ UNCHANGED <<clients, readyState, results>>

\* ------------------------------------------------ channel specification
\* the connections are opened and closed by their peers
Connect ==
    \E c \in Conns : wssConnection(c) /\ UNCHANGED <<dbVars, sessVars, formVars, appVars>>

Closing ==
    \E c \in Conns : wsClosing(c) /\ UNCHANGED <<dbVars, sessVars, formVars, appVars>>

Close ==
    \E c \in Conns : wsClose(c) /\ UNCHANGED <<dbVars, sessVars, formVars, appVars>>

\* a teacher creates a quiz; every send() returns normally
CreateQuiz ==
    \E title \in Titles, qs \in BodyQuestions :
        /\ postQuizzes(title, qs, {})
        /\ UNCHANGED <<sessVars, formVars, appVars>>

\* a teacher creates a quiz; the send() of one open connection raises
CreateQuizSendThrows ==
    \E title \in Titles, qs \in BodyQuestions, c \in Conns :
        /\ c \in Members
        /\ readyState[c] = "OPEN"
        /\ postQuizzes(title, qs, {c})
        /\ UNCHANGED <<sessVars, formVars, appVars>>

InitNoApp ==
    /\ user = "none"
    /\ effect = 0
    /\ cli = [c \in Chains |-> "NONE"]
    /\ reconnectTimers = [c \in Chains |-> <<>>]
    /\ notification = Undefined
    /\ dismissTimers = <<>>
    /\ received = 0
    /\ handled = 0

InitNoSession ==
    /\ reqId = 1
    /\ fetching = FALSE
    /\ quiz = NullQuiz
    /\ currentIdx = 0
    /\ answers = <<>>
    /\ finished = FALSE
    /\ score = 0
    /\ posts = <<>>

InitServer ==
    /\ quizzes = {}
    /\ quizSeq = 0
    /\ questions = <<>>
    /\ results = <<>>
    /\ InitChannel
    /\ InitNoSession
    /\ InitNoApp
    /\ InitNoForm

NextChannel ==
    \/ Connect
    \/ Closing
    \/ Close
    \/ CreateQuiz

SpecChannel == InitServer /\ [][NextChannel]_vars

NextSendFails ==
    \/ Connect
    \/ Closing
    \/ Close
    \/ CreateQuiz
    \/ CreateQuizSendThrows

SpecSendFails == InitServer /\ [][NextSendFails]_vars

\* ------------------------------------------------ App (the student client)
\* One browser tab running App.  Every run of the WebSocket effect for a
\* student makes one closure (`socket`, `connect`); the closure's socket is
\* replaced by connect() after each close, so a closure is one chain of
\* sockets and is named by the connection slot it uses.  cli[c] is the
\* readyState of the chain's current socket: "NONE" before the effect ran,
\* "CLOSED" once onclose has fired.

\* the delays of the two setTimeout calls of the effect, in milliseconds
ReconnectDelay == 3000
DismissDelay == 10000

FreeChains == {c \in Chains : cli[c] = "NONE"}

\* socket?.close() on the current socket of chain c
SocketClose(c) ==
    [cli EXCEPT ![c] = IF cli[c] \in {"CONNECTING", "OPEN"} THEN "CLOSING" ELSE cli[c]]

\* handleLogin(userData), then the effect of [user]: the previous user was
\* null, so there is no cleanup to run; a student connects
handleLogin(role) ==
    /\ user = "none"
    /\ user' = role
    /\ IF role = "student"
       THEN /\ FreeChains /= {}
            /\ LET c == CHOOSE x \in FreeChains : \A y \in FreeChains : x <= y
               IN  /\ cli' = [cli EXCEPT ![c] = "CONNECTING"]
                   /\ effect' = c
       ELSE /\ cli' = cli
            /\ effect' = 0
    /\ UNCHANGED <<reconnectTimers, notification, dismissTimers, received, handled>>
    /\ UNCHANGED <<dbVars, sessVars, formVars, chanVars>>

Login == \E role \in {"student", "teacher"} : handleLogin(role)

\* handleLogout, then the effect of [user]: the cleanup of the student's
\* effect closes its socket; the new effect returns at the role guard
handleLogout ==
    /\ user /= "none"
    /\ user' = "none"
    /\ cli' = IF effect /= 0 THEN SocketClose(effect) ELSE cli
    /\ effect' = 0
    /\ UNCHANGED <<reconnectTimers, notification, dismissTimers, received, handled>>
    /\ UNCHANGED <<dbVars, sessVars, formVars, chanVars>>

\* the server accepts the connection the socket of chain c is opening
AcceptChain(c) ==
    /\ cli[c] = "CONNECTING"
    /\ wssConnection(c)
    /\ cli' = [cli EXCEPT ![c] = "OPEN"]
    /\ UNCHANGED <<user, effect, reconnectTimers, notification, dismissTimers,
                   received, handled>>
    /\ UNCHANGED <<dbVars, sessVars, formVars>>

Accept == \E c \in Chains : AcceptChain(c)

\* mutant: a close handler that schedules nothing
oncloseNoRetry(c) ==
    /\ \/ cli[c] = "CLOSING"
       \/ cli[c] = "CONNECTING"
       \/ cli[c] = "OPEN" /\ readyState[c] /= "OPEN"
    /\ cli' = [cli EXCEPT ![c] = "CLOSED"]
    /\ UNCHANGED <<user, effect, reconnectTimers, notification, dismissTimers,
                   received, handled>>
    /\ UNCHANGED <<dbVars, sessVars, formVars, chanVars>>

\* socket.onclose = () => setTimeout(connect, 3000): the socket was closed
\* by close(), by its peer or by the transport, or its handshake failed
onclose(c) ==
    /\ \/ cli[c] = "CLOSING"
       \/ cli[c] = "CONNECTING"
       \/ cli[c] = "OPEN" /\ readyState[c] /= "OPEN"
    /\ cli' = [cli EXCEPT ![c] = "CLOSED"]
    /\ reconnectTimers' = [reconnectTimers EXCEPT ![c] = Append(@, ReconnectDelay)]
    /\ UNCHANGED <<user, effect, notification, dismissTimers, received, handled>>
    /\ UNCHANGED <<dbVars, sessVars, formVars, chanVars>>

OnClose == \E c \in Chains : onclose(c)

\* the oldest reconnect timer of chain c fires: connect() makes the chain's
\* next socket
connect(c) ==
    /\ reconnectTimers[c] /= <<>>
    /\ reconnectTimers' = [reconnectTimers EXCEPT ![c] = Tail(@)]
    /\ cli' = [cli EXCEPT ![c] = "CONNECTING"]
    /\ UNCHANGED <<user, effect, notification, dismissTimers, received, handled>>
    /\ UNCHANGED <<dbVars, sessVars, formVars, chanVars>>

ReconnectTimer == \E c \in Chains : connect(c)

\* mutant: the handler without the test of data.type
IsNewQuizAnyType(frame) == frame.parses

\* JSON.parse(event.data) succeeded and data.type === 'NEW_QUIZ'
IsNewQuiz(frame) == frame.parses /\ frame.type = "NEW_QUIZ"

\* socket.onmessage of an open socket, on the oldest frame sent to it.  A
\* dismissal timer is the closure () => setNotification(null); `event` notes
\* which NEW_QUIZ event started it.
onmessage(c) ==
    /\ cli[c] = "OPEN"
    /\ wire[c] /= <<>>
    /\ wire' = [wire EXCEPT ![c] = Tail(wire[c])]
    /\ handled' = handled + 1
    /\ IF IsNewQuiz(Head(wire[c]))
       THEN /\ notification' = {Head(wire[c]).title}
            /\ dismissTimers' = Append(dismissTimers,
                                       [delay |-> DismissDelay, event |-> received + 1])
            /\ received' = received + 1
       ELSE UNCHANGED <<notification, dismissTimers, received>>
    /\ UNCHANGED <<user, effect, cli, reconnectTimers>>
    /\ UNCHANGED <<clients, readyState, httpRes>>
    /\ UNCHANGED <<dbVars, sessVars, formVars>>

OnMessage == \E c \in Chains : onmessage(c)

\* the oldest dismissal timer fires (all have the same delay, so they fire in
\* the order they were started): setNotification(null)
DismissTimer ==
    /\ dismissTimers /= <<>>
    /\ dismissTimers' = Tail(dismissTimers)
    /\ notification' = Undefined
    /\ UNCHANGED <<user, effect, cli, reconnectTimers, received, handled>>
    /\ UNCHANGED <<dbVars, sessVars, formVars, chanVars>>

\* the close button of NotificationToast: onClose={() => setNotification(null)}
CloseToast ==
    /\ notification /= Undefined
    /\ notification' = Undefined
    /\ UNCHANGED <<user, effect, cli, reconnectTimers, dismissTimers, received, handled>>
    /\ UNCHANGED <<dbVars, sessVars, formVars, chanVars>>

\* App mounts with the user saved in localStorage, if any; the effect of a
\* saved student connects at once
InitApp ==
    /\ quizzes = {}
    /\ quizSeq = 0
    /\ questions = <<>>
    /\ results = <<>>
    /\ InitChannel
    /\ InitNoSession
    /\ InitNoForm
    /\ user \in {"none", "student", "teacher"}
    /\ effect = IF user = "student" THEN 1 ELSE 0
    /\ cli = [c \in Chains |-> IF user = "student" /\ c = 1 THEN "CONNECTING" ELSE "NONE"]
    /\ reconnectTimers = [c \in Chains |-> <<>>]
    /\ notification = Undefined
    /\ dismissTimers = <<>>
    /\ received = 0
    /\ handled = 0

NextApp ==
    \/ Login
    \/ handleLogout
    \/ Accept
    \/ OnClose
    \/ ReconnectTimer
    \/ OnMessage
    \/ DismissTimer
    \/ CloseToast
    \/ Closing
    \/ Close
    \/ CreateQuiz

SpecApp == InitApp /\ [][NextApp]_vars

\* ------------------------------------------- reconnection specification
\* The tab and the server ends of its connections, without quiz creation.
NextReconnect ==
    \/ Login
    \/ handleLogout
    \/ Accept
    \/ OnClose
    \/ ReconnectTimer
    \/ Closing
    \/ Close

\* the server end of a connection whose client end is no longer open leaves
\* OPEN (the closing handshake reaches the server)
PeerGone(c) ==
    /\ cli[c] /= "OPEN"
    /\ wsClosing(c)
    /\ UNCHANGED <<dbVars, sessVars, formVars, appVars>>

ServerClose(c) == wsClose(c) /\ UNCHANGED <<dbVars, sessVars, formVars, appVars>>

\* the close event of a socket that was closed by close() or lost its peer
CloseEvent(c) == cli[c] /= "CONNECTING" /\ onclose(c)

\* Events that are due are dispatched and timers that are due fire; the
\* server tears down the connections its peers left; and the server accepts
\* connections: a socket that keeps trying to connect is accepted at some
\* attempt.
ReconnectFairness ==
    \A c \in Chains :
        /\ WF_vars(CloseEvent(c))
        /\ WF_vars(connect(c))
        /\ WF_vars(PeerGone(c))
        /\ WF_vars(ServerClose(c))
        /\ SF_vars(AcceptChain(c))

SpecReconnect == InitApp /\ [][NextReconnect]_vars /\ ReconnectFairness

\* ------------------------------------------------ toast specification
\* The payloads a socket can deliver: the server's NEW_QUIZ events, a JSON
\* value of another type, and a text that is not JSON
Payloads ==
    {Stringify([type |-> "NEW_QUIZ", title |-> t]) : t \in Titles}
    \cup {[parses |-> TRUE, type |-> "PING", title |-> ""],
          [parses |-> FALSE, type |-> "", title |-> ""]}

\* a frame reaches the open socket of chain c
FrameArrives ==
    \E c \in Chains, f \in Payloads :
        /\ cli[c] = "OPEN"
        /\ handled + Len(wire[c]) < MaxFrames
        /\ wire' = [wire EXCEPT ![c] = Append(@, f)]
        /\ UNCHANGED <<clients, readyState, httpRes>>
        /\ UNCHANGED <<dbVars, sessVars, formVars, appVars>>

\* a logged-in student whose socket is open
InitToast ==
    /\ quizzes = {}
    /\ quizSeq = 0
    /\ questions = <<>>
    /\ results = <<>>
    /\ InitNoSession
    /\ InitNoForm
    /\ clients = <<1>>
    /\ readyState = [c \in Conns |-> IF c = 1 THEN "OPEN" ELSE "CLOSED"]
    /\ wire = [c \in Conns |-> <<>>]
    /\ httpRes = NoResponse
    /\ user = "student"
    /\ effect = 1
    /\ cli = [c \in Chains |-> IF c = 1 THEN "OPEN" ELSE "NONE"]
    /\ reconnectTimers = [c \in Chains |-> <<>>]
    /\ notification = Undefined
    /\ dismissTimers = <<>>
    /\ received = 0
    /\ handled = 0

NextToast ==
    \/ FrameArrives
    \/ OnMessage
    \/ DismissTimer
    \/ CloseToast

SpecToast == InitToast /\ [][NextToast]_vars

\* ------------------------------------------------------------ TakeQuiz
StudentId == 1

\* quiz.questions of the state value: undefined on the 404 body
HasQuestions == quiz.kind = "quiz"
NumQuestions == Len(quiz.questions)

\* What one render of TakeQuiz produces (App.tsx:620, 656, 693-724):
\*   "Loading"     the guard `if (!quiz)`
\*   "Completed"   the `if (finished)` branch
\*   "Question"    the current question with its option buttons
\*   "RenderError" the render throws a TypeError: quiz.questions is
\*                 undefined (693), or q is undefined and q.text is read (724)
\* mutant: the render without the `if (finished)` branch
ViewNoFinished ==
    IF quiz.kind = "null" THEN "Loading"
    ELSE IF ~HasQuestions THEN "RenderError"
    ELSE IF currentIdx >= NumQuestions THEN "RenderError"
    ELSE "Question"

View ==
    IF quiz.kind = "null" THEN "Loading"
    ELSE IF finished THEN "Completed"
    ELSE IF ~HasQuestions THEN "RenderError"
    ELSE IF currentIdx >= NumQuestions THEN "RenderError"
    ELSE "Question"

\* the percentage shown by the Completed branch (App.tsx:657)
ShownPercentage == Percentage(score, NumQuestions)

\* fetch(`/api/quizzes/${id}`).then(res => res.json()).then(setQuiz)
FetchResponse ==
    /\ fetching
    /\ fetching' = FALSE
    /\ quiz' = GetQuiz(reqId)
    /\ UNCHANGED <<dbVars, chanVars, appVars>>
    /\ UNCHANGED <<formVars, reqId, currentIdx, answers, finished, score, posts>>

\* handleAnswer(optIdx), reached from the option buttons of the current question
handleAnswer(optIdx) ==
    /\ answers' = SetAt(answers, currentIdx, optIdx)
    /\ UNCHANGED <<dbVars, chanVars, appVars>>
    /\ UNCHANGED <<formVars, reqId, fetching, quiz, currentIdx, finished, score, posts>>

ClickOption ==
    /\ View = "Question"
    /\ \E i \in 0 .. (quiz.questions[currentIdx + 1].options - 1) : handleAnswer(i)

\* the forEach loop of finish, from position i on
RECURSIVE CountFrom(_, _, _)
CountFrom(qs, ans, i) ==
    IF i >= Len(qs) THEN 0
    ELSE (IF StrictEq(At(ans, i), qs[i + 1].correct_index) THEN 1 ELSE 0)
         + CountFrom(qs, ans, i + 1)

CorrectCount(qs, ans) == CountFrom(qs, ans, 0)

finish ==
    /\ score' = CorrectCount(quiz.questions, answers)
    /\ finished' = TRUE
    /\ posts' = Append(posts, [quiz_id |-> quiz.id, student_id |-> StudentId,
                               score |-> CorrectCount(quiz.questions, answers),
                               total |-> NumQuestions])
    /\ UNCHANGED <<dbVars, chanVars, appVars>>
    /\ UNCHANGED <<formVars, reqId, fetching, quiz, currentIdx, answers>>

\* mutant: the bound of next off by one
nextOffByOne ==
    IF currentIdx < NumQuestions
    THEN /\ currentIdx' = currentIdx + 1
         /\ UNCHANGED <<dbVars, chanVars, appVars>>
         /\ UNCHANGED <<formVars, reqId, fetching, quiz, answers, finished, score, posts>>
    ELSE finish

next ==
    IF currentIdx < NumQuestions - 1
    THEN /\ currentIdx' = currentIdx + 1
         /\ UNCHANGED <<dbVars, chanVars, appVars>>
         /\ UNCHANGED <<formVars, reqId, fetching, quiz, answers, finished, score, posts>>
    ELSE finish

\* mutant: the advance button without its disabled guard
NextNeverDisabled == FALSE

\* the advance button: disabled={answers[currentIdx] === undefined}
NextDisabled == At(answers, currentIdx) = Undefined

ClickNext ==
    /\ View = "Question"
    /\ ~NextDisabled
    /\ next

\* ------------------------------------------------- session specification
\* A question row as the authoring form submits it
QuestionRows(id) ==
    UNION {[1 .. n -> [quiz_id : {id}, correct_index : Options, options : {NumOptions}]]
           : n \in 0 .. MaxQuestions}

\* The store holds quiz 1 with any list of questions (none included); the
\* student opens /take-quiz/:id for an id the store holds or does not hold.
InitSession ==
    /\ quizzes = {[id |-> 1, title |-> "Math Basics"]}
    /\ quizSeq = 1
    /\ questions \in QuestionRows(1)
    /\ results = <<>>
    /\ InitChannel
    /\ InitNoApp
    /\ InitNoForm
    /\ reqId \in 1 .. MaxId
    /\ fetching = TRUE
    /\ quiz = NullQuiz
    /\ currentIdx = 0
    /\ answers = <<>>
    /\ finished = FALSE
    /\ score = 0
    /\ posts = <<>>

NextSession ==
    \/ FetchResponse
    \/ ClickOption
    \/ ClickNext
    \/ PostResults

SpecSession == InitSession /\ [][NextSession]_vars

\* ------------------------------------------------- scoring specification
\* An array of at most MaxQuestions slots, holes included
AnswerArrays ==
    UNION {[1 .. n -> {Undefined} \cup {{o} : o \in Options}] : n \in 0 .. MaxQuestions}

\* finish applied to every loaded quiz and every answer array, sparse ones
\* included (the inputs of the scoring are drawn here; the UI reaches only
\* some of them)
InitScore ==
    /\ quizzes = {[id |-> 1, title |-> "Math Basics"]}
    /\ quizSeq = 1
    /\ questions \in QuestionRows(1)
    /\ results = <<>>
    /\ InitChannel
    /\ InitNoApp
    /\ InitNoForm
    /\ reqId = 1
    /\ fetching = FALSE
    /\ quiz = [kind |-> "quiz", id |-> 1, questions |-> QuestionsOf(questions, 1)]
    /\ currentIdx = 0
    /\ answers \in AnswerArrays
    /\ finished = FALSE
    /\ score = 0
    /\ posts = <<>>

ApplyFinish ==
    /\ ~finished
    /\ finish

NextScore ==
    \/ ApplyFinish
    \/ PostResults

SpecScore == InitScore /\ [][NextScore]_vars

\* --------------------------------------------------- store specification
\* app.post("/api/quizzes") when an INSERT raises: statement `failAt` of the
\* handler fails (0: the INSERT of the quiz row, k > 0: the INSERT of the
\* k-th question).  The statements before it have taken effect (there is no
\* transaction), the handler is left before broadcast, and express answers
\* with status 500.
\* mutant: the events are broadcast although an INSERT failed
postQuizzesInsertFailsNotified(title, qs, failAt) ==
    LET quizId == quizSeq + 1
    IN  /\ quizSeq < MaxCreates
        /\ failAt \in 0 .. Len(qs)
        /\ IF failAt = 0
           THEN UNCHANGED <<quizSeq, quizzes, questions>>
           ELSE /\ quizSeq' = quizId
                /\ quizzes' = quizzes \cup {[id |-> quizId, title |-> title]}
                /\ questions' = questions \o NewRows(quizId, SubSeq(qs, 1, failAt - 1))
        /\ broadcast([type |-> "NEW_QUIZ", title |-> title], {})
        /\ httpRes' = [status |-> 500, id |-> 0, err |-> {}]
        /\ UNCHANGED <<clients, readyState, results>>

postQuizzesInsertFails(title, qs, failAt) ==
    LET quizId == quizSeq + 1
    IN  /\ quizSeq < MaxCreates
        /\ failAt \in 0 .. Len(qs)
        /\ IF failAt = 0
           THEN UNCHANGED <<quizSeq, quizzes, questions>>
           ELSE /\ quizSeq' = quizId
                /\ quizzes' = quizzes \cup {[id |-> quizId, title |-> title]}
                /\ questions' = questions \o NewRows(quizId, SubSeq(qs, 1, failAt - 1))
        /\ httpRes' = [status |-> 500, id |-> 0, err |-> {}]
        /\ UNCHANGED <<clients, readyState, wire, results>>

\* a teacher creates a quiz and one INSERT of the handler raises
CreateQuizInsertFails ==
    \E title \in Titles, qs \in BodyQuestions, failAt \in 0 .. MaxQuestions :
        /\ postQuizzesInsertFails(title, qs, failAt)
        /\ UNCHANGED <<sessVars, formVars, appVars>>

\* the rows of `results` that reference quiz `id`
ResultsOf(id) == {k \in 1 .. Len(results) : results[k].quiz_id = id}

\* DELETE FROM questions WHERE quiz_id = ?
DeleteQuestions(rows, id) == SelectSeq(rows, LAMBDA r : r.quiz_id /= id)

\* app.delete("/api/quizzes/:id"): two DELETE statements, no transaction.
\* `fkEnforced`: the connection enforces FOREIGN KEY constraints (a build
\* option of the sqlite binding).  When it does, the DELETE of a quiz row
\* that rows of `results` reference raises, after the questions are deleted.
deleteQuizzes(id, fkEnforced) ==
    /\ questions' = DeleteQuestions(questions, id)
    /\ IF fkEnforced /\ ResultsOf(id) /= {}
       THEN /\ quizzes' = quizzes
            /\ httpRes' = [status |-> 500, id |-> 0, err |-> {}]
       ELSE /\ quizzes' = {q \in quizzes : q.id /= id}
            /\ httpRes' = [status |-> 200, id |-> 0, err |-> {}]
    /\ UNCHANGED <<quizSeq, results, clients, readyState, wire>>

\* a teacher deletes a quiz of the dashboard list
DeleteQuiz ==
    \E id \in QuizIds, fkEnforced \in BOOLEAN :
        /\ deleteQuizzes(id, fkEnforced)
        /\ UNCHANGED <<sessVars, formVars, appVars>>

\* app.post("/api/results") for the body of a completed session
postResults(body) ==
    /\ results' = Append(results, body)
    /\ UNCHANGED <<quizzes, quizSeq, questions>>

\* a student who completed a session of a stored quiz submits the result
SubmitResult ==
    \E id \in QuizIds, s \in 0 .. MaxQuestions :
        /\ Len(results) < MaxResults
        /\ s <= Len(QuestionsOf(questions, id))
        /\ postResults([quiz_id |-> id, student_id |-> StudentId, score |-> s,
                        total |-> Len(QuestionsOf(questions, id))])
        /\ UNCHANGED <<sessVars, formVars, chanVars, appVars>>

NextStore ==
    \/ Connect
    \/ Closing
    \/ Close
    \/ CreateQuiz
    \/ CreateQuizSendThrows
    \/ CreateQuizInsertFails
    \/ DeleteQuiz
    \/ SubmitResult

SpecStore == InitServer /\ [][NextStore]_vars

\* ------------------------------------------ notification specification
\* the channel with every outcome of a create-quiz request
NextNotify ==
    \/ Connect
    \/ Closing
    \/ Close
    \/ CreateQuiz
    \/ CreateQuizSendThrows
    \/ CreateQuizInsertFails

SpecNotify == InitServer /\ [][NextNotify]_vars

\* ------------------------------------- session and store specification
\* the session of SpecSession while the teacher may delete the quiz
NextSessionStore ==
    \/ FetchResponse
    \/ ClickOption
    \/ ClickNext
    \/ PostResults
    \/ DeleteQuiz

SpecSessionStore == InitSession /\ [][NextSessionStore]_vars

\* ------------------------------------------------- CreateQuiz (the form)
\* One mount of the authoring form.  A question of the draft is modelled by
\* its options array and its correct_index; text and image_url are strings
\* that nothing reads.

\* the text typed into a field of the form
Texts == {"x"}

\* setQuestions([...questions, {..., options: ['', '', '', ''], correct_index: 0}])
addQuestion ==
    /\ formMounted
    /\ Len(draft) < MaxQuestions
    /\ draft' = Append(draft, BlankQuestion)
    /\ UNCHANGED <<formMounted, dbVars, sessVars, chanVars, appVars>>

\* questions.filter((_, i) => i !== index)
Filter(qs, index) ==
    [k \in 1 .. (Len(qs) - (IF index >= 0 /\ index < Len(qs) THEN 1 ELSE 0)) |->
        IF k - 1 < index THEN qs[k] ELSE qs[k + 1]]

removeQuestion(index) ==
    /\ formMounted
    /\ draft' = Filter(draft, index)
    /\ UNCHANGED <<formMounted, dbVars, sessVars, chanVars, appVars>>

\* the trash button of each question card
RemoveQuestion == \E index \in 0 .. (Len(draft) - 1) : removeQuestion(index)

\* mutant: the correct option numbered from 1
updateQuestionOneBased(index, field, value) ==
    /\ formMounted
    /\ draft' = IF field = "correct_index"
                THEN [draft EXCEPT ![index + 1].correct_index = value + 1]
                ELSE draft
    /\ UNCHANGED <<formMounted, dbVars, sessVars, chanVars, appVars>>

\* (newQuestions[index] as any)[field] = value
updateQuestion(index, field, value) ==
    /\ formMounted
    /\ draft' = IF field = "correct_index"
                THEN [draft EXCEPT ![index + 1].correct_index = value]
                ELSE draft
    /\ UNCHANGED <<formMounted, dbVars, sessVars, chanVars, appVars>>

\* the check button beside option oIndex of question qIndex
ClickCorrect ==
    \E qIndex \in 0 .. (Len(draft) - 1) :
        \E oIndex \in 0 .. (Len(draft[qIndex + 1].options) - 1) :
            updateQuestion(qIndex, "correct_index", oIndex)

\* the text and image fields of question qIndex
TypeQuestion ==
    \E qIndex \in 0 .. (Len(draft) - 1), field \in {"text", "image_url"}, value \in Texts :
        updateQuestion(qIndex, field, value)

\* newQuestions[qIndex].options[oIndex] = value
updateOption(qIndex, oIndex, value) ==
    /\ formMounted
    /\ draft' = [draft EXCEPT ![qIndex + 1].options = SetAt(@, oIndex, value)]
    /\ UNCHANGED <<formMounted, dbVars, sessVars, chanVars, appVars>>

\* the input of option oIndex of question qIndex
TypeOption ==
    \E qIndex \in 0 .. (Len(draft) - 1) :
        \E oIndex \in 0 .. (Len(draft[qIndex + 1].options) - 1), value \in Texts :
            updateOption(qIndex, oIndex, value)

\* the questions of the body of handleSubmit as the server stores them:
\* correct_index and the options array (its length)
SubmitBody ==
    [k \in 1 .. Len(draft) |->
        [correct_index |-> draft[k].correct_index, options |-> Len(draft[k].options)]]

\* handleSubmit: POST /api/quizzes with the draft; the response is ok and
\* navigate('/') unmounts the form, whose state is discarded
handleSubmit ==
    \E title \in Titles :
        /\ formMounted
        /\ postQuizzes(title, SubmitBody, {})
        /\ formMounted' = FALSE
        /\ draft' = <<BlankQuestion>>
        /\ UNCHANGED <<sessVars, appVars>>

\* a teacher has opened the form; the store is empty
InitForm ==
    /\ quizzes = {}
    /\ quizSeq = 0
    /\ questions = <<>>
    /\ results = <<>>
    /\ InitChannel
    /\ InitNoSession
    /\ InitNoApp
    /\ draft = <<BlankQuestion>>
    /\ formMounted = TRUE

NextForm ==
    \/ addQuestion
    \/ RemoveQuestion
    \/ ClickCorrect
    \/ TypeQuestion
    \/ TypeOption
    \/ handleSubmit

SpecForm == InitForm /\ [][NextForm]_vars

\* ================================================================ claims

\* positions whose answer is defined and equals the question's correct_index
MatchingPositions ==
    {i \in 0 .. (NumQuestions - 1) :
        /\ At(answers, i) /= Undefined
        /\ \E o \in Options : At(answers, i) = {o} /\ o = quiz.questions[i + 1].correct_index}

Submissions == {posts[k] : k \in 1 .. Len(posts)} \cup {results[k] : k \in 1 .. Len(results)}

\* C1: after finish, the score is the number of positions i in 0..N-1 whose
\* answer is defined and equals questions[i].correct_index, and the total
\* submitted is N, for every quiz and every answer array (sparse included);
\* an undefined position never counts.
C1_ScoreCountsMatches ==
    finished =>
        /\ score = Cardinality(MatchingPositions)
        /\ \A r \in Submissions :
              r.score = Cardinality(MatchingPositions) /\ r.total = NumQuestions

\* C1 witness: a finished session over a sparse answer array whose only
\* defined answer is correct (score 1 of 2)
C1_Witness ==
    /\ finished
    /\ NumQuestions = 2
    /\ At(answers, 0) = Undefined
    /\ At(answers, 1) /= Undefined
    /\ score = 1
    /\ posts /= <<>>

\* C2: Advance at the last index completes the session, and the score shown
\* and the score/total submitted are the scoring of the answers as they
\* stood; Advance at an earlier index moves to the next position and neither
\* scores nor submits.
C2_AdvanceAtLast ==
    [][ClickNext =>
        IF currentIdx = NumQuestions - 1
        THEN /\ finished' /\ ~finished
             /\ score' = Cardinality(MatchingPositions)
             /\ posts' = Append(posts, [quiz_id |-> quiz.id, student_id |-> StudentId,
                                        score |-> Cardinality(MatchingPositions),
                                        total |-> NumQuestions])
             /\ answers' = answers
             /\ View' = "Completed"
        ELSE /\ currentIdx' = currentIdx + 1
             /\ ~finished'
             /\ score' = score
             /\ posts' = posts]_vars

\* C2 witness: a session completed from the last of two questions, with its
\* submission in flight
C2_Witness ==
    /\ finished
    /\ NumQuestions = 2
    /\ currentIdx = 1
    /\ Len(posts) = 1
    /\ View = "Completed"

\* C3: a session started for an id the store does not hold ends in a
\* NotFound error state: its render neither shows a question, nor the
\* completed screen, nor throws.
C3_NotFoundTerminal ==
    (~fetching /\ reqId \notin QuizIds) =>
        View \notin {"Question", "Completed", "RenderError"}

\* C4: a session on a quiz with zero questions is Completed at once, with
\* score 0, total 0 and percentage 0, and no error state.
C4_EmptyQuizCompletes ==
    (HasQuestions /\ NumQuestions = 0) =>
        /\ finished
        /\ score = 0
        /\ View = "Completed"
        /\ ShownPercentage = {0}

\* the frame a create-quiz step broadcasts: the NEW_QUIZ event with the title
\* of the quiz row the step inserted
NewQuizFrame ==
    LET row == CHOOSE q \in quizzes' : q \notin quizzes
    IN  [parses |-> TRUE, type |-> "NEW_QUIZ", title |-> row.title]

C6_ExactlyOnce == received <= quizSeq

\* C7: when the send to one connection fails during a broadcast, every other
\* open member of the client set is still sent the message.
C7_SendFailureIsolated ==
    [][quizSeq' /= quizSeq =>
        \A c \in Members :
            (readyState[c] = "OPEN" /\ c \notin httpRes'.err) =>
                wire'[c] = Append(wire[c], NewQuizFrame)]_vars

\* C8: once the quiz and its questions are persisted, the create-quiz request
\* is answered with the success response carrying the new quiz id, whatever
\* the outcome of the sends.
C8_CreateAnswersSuccess ==
    (quizSeq > 0 /\ quizSeq \in QuizIds) =>
        (httpRes.status = 200 /\ httpRes.id = quizSeq)

\* C9: the session leaves position p (to p+1 or to Completed) only if
\* answers[p] is defined at that moment.
C9_AdvanceNeedsAnswer ==
    [][(currentIdx' /= currentIdx \/ finished' /= finished) =>
        At(answers, currentIdx) /= Undefined]_vars

\* C9 witness: the session has advanced to the second question
C9_Witness ==
    /\ View = "Question"
    /\ currentIdx = 1
    /\ At(answers, 0) /= Undefined

\* C10: the position never decreases and grows by at most 1 per step; once
\* Completed the session stays Completed and its answers and score are frozen.
C10_NoReverse ==
    [][/\ currentIdx' >= currentIdx
       /\ currentIdx' <= currentIdx + 1
       /\ (finished => (finished' /\ answers' = answers /\ score' = score
                        /\ currentIdx' = currentIdx))]_vars

\* C10 witness: a completed session that took a further step (its result
\* was stored) after advancing past the first question
C10_Witness ==
    /\ finished
    /\ currentIdx >= 1
    /\ results /= <<>>

\* the sockets of the tab that are connecting or open
LiveSockets == {c \in Chains : cli[c] \in {"CONNECTING", "OPEN"}}

\* C11: whenever a socket of the client closes, for whatever reason, exactly
\* one reconnection timer is scheduled, with the delay of 3000 ms at every
\* retry; a timer is scheduled by nothing else; a timer that fires makes one
\* connection attempt; and, the server accepting connections, a closed
\* client is eventually open again, after any number of failed attempts.
C11_ReconnectAfterClose ==
    /\ [][\A c \in Chains :
            /\ (cli[c] /= "CLOSED" /\ cli'[c] = "CLOSED") =>
                  reconnectTimers'[c] = Append(reconnectTimers[c], 3000)
            /\ Len(reconnectTimers'[c]) > Len(reconnectTimers[c]) =>
                  (cli[c] /= "CLOSED" /\ cli'[c] = "CLOSED")
            /\ Len(reconnectTimers'[c]) < Len(reconnectTimers[c]) =>
                  (reconnectTimers'[c] = Tail(reconnectTimers[c])
                   /\ cli'[c] = "CONNECTING")]_vars
    /\ \A c \in Chains : (cli[c] = "CLOSED") ~> (cli[c] = "OPEN")

\* C11 witness: the socket of the active student session has closed and its
\* one reconnection timer is pending
C11_Witness ==
    /\ user = "student"
    /\ effect /= 0
    /\ cli[effect] = "CLOSED"
    /\ reconnectTimers[effect] = <<3000>>

\* C12: over any interleaving of login, logout, re-login, transport close
\* and reconnect timer, the tab holds at most one notification socket that
\* is connecting or open.
C12_SingleSubscription == Cardinality(LiveSockets) <= 1

\* C13: while the logged-in user is a teacher, the tab has no connecting or
\* open notification socket, no pending reconnection, and no notification
\* message set for display.
C13_TeacherNoSubscription ==
    user = "teacher" =>
        /\ LiveSockets = {}
        /\ \A c \in Chains : reconnectTimers[c] = <<>>
        /\ notification = Undefined

\* C14: a dismissal timer that fires while a message is displayed was
\* started by the event of that message (the latest NEW_QUIZ event): a timer
\* started by an earlier event never dismisses a later event's message.
C14_OwnTimerDismisses ==
    [][(Len(dismissTimers') < Len(dismissTimers) /\ notification /= Undefined) =>
          Head(dismissTimers).event = received]_vars

\* C15: a payload that is not JSON, or whose type is not "NEW_QUIZ", is
\* ignored by onmessage: the displayed notification and the dismissal timers
\* are unchanged and the socket stays open; a well-formed NEW_QUIZ event on
\* that socket, earlier payloads notwithstanding, is displayed and starts its
\* timer.
C15_MalformedIgnored ==
    [][handled' /= handled =>
          \E c \in Chains :
              /\ wire[c] /= <<>>
              /\ wire'[c] = Tail(wire[c])
              /\ cli[c] = "OPEN"
              /\ cli'[c] = "OPEN"
              /\ IF Head(wire[c]).parses /\ Head(wire[c]).type = "NEW_QUIZ"
                 THEN /\ notification' = {Head(wire[c]).title}
                      /\ Len(dismissTimers') = Len(dismissTimers) + 1
                 ELSE /\ notification' = notification
                      /\ dismissTimers' = dismissTimers]_vars

\* C15 witness: of two payloads handled on the open socket one was ignored
\* and the other, a NEW_QUIZ event, is displayed with its one timer pending
C15_Witness ==
    /\ handled = 2
    /\ received = 1
    /\ cli[1] = "OPEN"
    /\ wire[1] = <<>>
    /\ notification = {"Science Quiz"}
    /\ Len(dismissTimers) = 1

\* C16: a create-quiz operation leaves either the quiz row together with all
\* of the submitted questions, or neither the row nor any question: every
\* quiz row a step adds has all the questions of a request body, and no
\* question row is added without its quiz row.
C16_CreateAtomic ==
    [][/\ \A q \in quizzes' \ quizzes :
             \E qs \in BodyQuestions : QuestionsOf(questions', q.id) = qs
       /\ Len(questions') > Len(questions) => quizzes' \ quizzes /= {}]_vars

\* C17: a delete-quiz operation leaves neither the quiz row nor any question
\* of that quiz, or the quiz with all of its questions.
C17_DeleteAtomic ==
    [][Len(questions') < Len(questions) \/ quizzes \ quizzes' /= {} =>
          \A q \in quizzes :
              \/ /\ q \notin quizzes'
                 /\ QuestionsOf(questions', q.id) = <<>>
              \/ /\ q \in quizzes'
                 /\ QuestionsOf(questions', q.id) = QuestionsOf(questions, q.id)]_vars

\* C18: a session issues no result submission before it is Completed and
\* exactly one once it is; the submission carries total = the number of
\* questions of the session's quiz; and the rows of `results` are only ever
\* appended to, never changed or removed.
C18_OneResultPerSession ==
    /\ [](Len(posts) + Len(results) = IF finished THEN 1 ELSE 0)
    /\ [](\A r \in Submissions : r.total = NumQuestions /\ r.quiz_id = quiz.id)
    /\ [][/\ Len(results') >= Len(results)
          /\ SubSeq(results', 1, Len(results)) = results]_vars

\* C18 witness: a completed session of a two-question quiz whose one result
\* row is stored, after which the quiz was deleted or refused to be
C18_Witness ==
    /\ finished
    /\ Len(results) = 1
    /\ posts = <<>>
    /\ results[1].total = 2
    /\ httpRes.status /= 0

\* C19: recording an answer at position p sets answers[p] to an option index
\* of question p and leaves every other position, the position p itself as
\* the current one, the Completed flag, the score and the submissions
\* unchanged; nothing else changes the answers, so the value scored at
\* finish is the one recorded last.
C19_RecordAnswerFrame ==
    [][/\ (ClickOption \/ answers' /= answers) =>
             /\ View = "Question"
             /\ \E o \in 0 .. (quiz.questions[currentIdx + 1].options - 1) :
                    At(answers', currentIdx) = {o}
             /\ \A i \in 0 .. MaxQuestions :
                    i /= currentIdx => At(answers', i) = At(answers, i)
             /\ Len(answers') <= NumQuestions
             /\ currentIdx' = currentIdx
             /\ finished' = finished
             /\ score' = score
             /\ posts' = posts
       /\ (finished' /\ ~finished) =>
             /\ answers' = answers
             /\ score' = Cardinality(MatchingPositions)]_vars

\* C19 witness: the second question answered with its last option, the
\* answer of the first still recorded
C19_Witness ==
    /\ View = "Question"
    /\ currentIdx = 1
    /\ At(answers, 0) /= Undefined
    /\ At(answers, 1) = {NumOptions - 1}

C21_DraftInvariant ==
    /\ \A k \in 1 .. Len(draft) :
          /\ Len(draft[k].options) = 4
          /\ \A o \in 1 .. Len(draft[k].options) : draft[k].options[o] /= Undefined
          /\ draft[k].correct_index >= 0
          /\ draft[k].correct_index < 4
    /\ \A k \in 1 .. Len(questions) :
          /\ questions[k].options = 4
          /\ questions[k].correct_index >= 0
          /\ questions[k].correct_index < questions[k].options

\* C21 witness: the form was submitted with two questions whose correct
\* options are the last and the third
C21_Witness ==
    /\ ~formMounted
    /\ quizSeq = 1
    /\ Len(questions) = 2
    /\ questions[1].correct_index = 3
    /\ questions[2].correct_index = 2
    /\ questions[1].options = 4

\* C22: in a session driven through the UI every position before the
\* current one has a defined answer; a Completed session has a defined
\* answer at each of its N positions; and every score submitted or stored
\* satisfies 0 <= score <= total = N.
C22_AnsweredPrefix ==
    /\ \A i \in 0 .. (currentIdx - 1) : At(answers, i) /= Undefined
    /\ finished =>
          /\ Len(answers) = NumQuestions
          /\ \A i \in 0 .. (NumQuestions - 1) : At(answers, i) /= Undefined
    /\ \A r \in Submissions :
          /\ r.score >= 0
          /\ r.score <= r.total
          /\ r.total = NumQuestions

\* C22 witness: a completed session of two questions, both answered
\* correctly, whose result is stored
C22_Witness ==
    /\ finished
    /\ NumQuestions = 2
    /\ At(answers, 0) /= Undefined
    /\ At(answers, 1) /= Undefined
    /\ Len(results) = 1
    /\ results[1].score = 2
    /\ results[1].total = 2

====
